---- MODULE Spec2Model ----
(***************************************************************************)
(* Model of src/frontend/main.js: the client-side session store, the       *)
(* login/OTP flow, the upload/report client and the history synchronizer.  *)
(*                                                                         *)
(* JavaScript runs each handler to its next await without interruption,    *)
(* so every action below is one such run: the start of a handler up to the *)
(* fetch it awaits, or the continuation that runs when the response comes. *)
(* Calls that are suspended on a fetch are kept in the bag inflight.       *)
(*                                                                         *)
(* Line 6 of the source reads "image.pnglet currentUser = null;"; the      *)
(* model reads it as the declaration "let currentUser = null;".            *)
(***************************************************************************)
EXTENDS Integers, Sequences, FiniteSets, Bags, TLC

\* Handler invocations that issue a request, over the whole run.
MaxOps == 2

-----------------------------------------------------------------------------
(* JavaScript values.  A scalar is a string; three reserved strings stand   *)
(* for undefined, null and a number.  A value is [k, f]: its kind and, for  *)
(* an object, its four properties (a missing property reads as undefined).  *)

UNDEF == "<undefined>"
NULLV == "<null>"
NUM5 == "<5>"
TODAY == "<today>"
NORET == "<pending>"

IsString(v) == v \notin {UNDEF, NULLV, NUM5}
Falsy(v) == v \in {UNDEF, NULLV, ""}

FieldOrder == <<"email", "name", "userId", "memberSince">>
NoFields == [email |-> UNDEF, name |-> UNDEF, userId |-> UNDEF, memberSince |-> UNDEF]
NullUser == [k |-> "null", f |-> NoFields]
Obj(e, n, u, m) == [k |-> "obj", f |-> [email |-> e, name |-> n, userId |-> u, memberSince |-> m]]

UserA == Obj("t@agastya.org", "T", "U1", "2024")
UserB == Obj("t@agastya.org", "T", "U2", "2024")

\* Bodies the verify-otp endpoint may answer with (parsed JSON).
VerifyBodies ==
    { UserA, UserB,
      Obj("t@agastya.org", UNDEF, "U1", "2024"),
      Obj("t@agastya.org", "T", UNDEF, UNDEF),
      NullUser }

-----------------------------------------------------------------------------
(* localStorage['currentUser']: absent, or a string.  A string is the empty *)
(* string, a text that is not JSON, or a JSON text: its kind and, for an    *)
(* object, its key/value pairs in the order they were written.              *)

NoItem == [t |-> "absent", k |-> "null", pairs |-> <<>>]
EmptyText == [t |-> "empty", k |-> "null", pairs |-> <<>>]
Garbage == [t |-> "invalid", k |-> "null", pairs |-> <<>>]
JsonText(k, pairs) == [t |-> "json", k |-> k, pairs |-> pairs]

JSONstringifyDropsUserId(v) ==
    JsonText(v.k,
        IF v.k = "obj"
        THEN SelectSeq([i \in 1..4 |-> <<FieldOrder[i], v.f[FieldOrder[i]]>>],
                       LAMBDA p : p[2] # UNDEF /\ p[1] # "userId")
        ELSE <<>>)

\* JSON.stringify(user): properties whose value is undefined are left out.
JSONstringify(v) ==
    JsonText(v.k,
        IF v.k = "obj"
        THEN SelectSeq([i \in 1..4 |-> <<FieldOrder[i], v.f[FieldOrder[i]]>>],
                       LAMBDA p : p[2] # UNDEF)
        ELSE <<>>)

Lookup(pairs, key) ==
    IF \E i \in DOMAIN pairs : pairs[i][1] = key
    THEN pairs[CHOOSE i \in DOMAIN pairs : pairs[i][1] = key][2]
    ELSE UNDEF

\* JSON.parse(text) for a JSON text (it throws for any other string).
JSONparse(st) ==
    [k |-> st.k,
     f |-> [email |-> Lookup(st.pairs, "email"), name |-> Lookup(st.pairs, "name"),
            userId |-> Lookup(st.pairs, "userId"),
            memberSince |-> Lookup(st.pairs, "memberSince")]]

\* Values the storage may hold when the page is opened.
InitialStored ==
    { NoItem, EmptyText, Garbage, JsonText("null", <<>>),
      JsonText("obj", <<<<"name", "T">>>>), JSONstringify(UserA) }

-----------------------------------------------------------------------------
(* The login email field.  Emails are sequences of characters so that       *)
(* endsWith is computed.                                                    *)

Suffix == <<"@", "a", "g", "a", "s", "t", "y", "a", ".", "o", "r", "g">>
Emails ==
    { <<>>,
      <<"t">> \o Suffix,
      <<"t">> \o Suffix \o <<" ">>,
      <<"t", "@", "x", ".", "o", "r", "g">> }

endsWith(s, suf) ==
    /\ Len(s) >= Len(suf)
    /\ SubSeq(s, Len(s) - Len(suf) + 1, Len(s)) = suf

ValidEmailIncludes(email) ==
    /\ email # <<>>
    /\ \E i \in 1..(Len(email) - Len(Suffix) + 1) :
          SubSeq(email, i, i + Len(Suffix) - 1) = Suffix

\* The negation of the guard at line 293.
ValidEmail(email) == email # <<>> /\ endsWith(email, Suffix)

\* generateUniqueId(): 'AIF' + year + four random digits; collisions can happen.
Ids == {"AIF20260001"}
\* generateUniqueIdForUser(email)
GenUserIds == {"AIF1_dEBhZ2Fz"}
Files == {[name |-> "a.xlsx", size |-> "10"]}

Outcomes == {"ok", "http_error", "network_error"}
BodyOutcomes == Outcomes \cup {"ok_badjson"}

-----------------------------------------------------------------------------
(* Session store (lines 386-446).                                           *)

DefaultHeader == [loginBtn |-> "default", userProfile |-> "default", userName |-> ""]

\* updateHeaderUI(user): the two display assignments come first; user.name.charAt
\* then throws a TypeError unless user is an object whose name is a string.
updateHeaderUI(h, user) ==
    LET shown == [h EXCEPT !.loginBtn = "none", !.userProfile = "block"]
        threw == user.k # "obj" \/ ~IsString(user.f.name)
    IN  [threw |-> threw,
         header |-> IF threw THEN shown ELSE [shown EXCEPT !.userName = user.f.name]]

LoggedOutHeader(h) == [h EXCEPT !.loginBtn = "block", !.userProfile = "none"]

\* if (storedUser): getItem gives null for a missing key, and '' is falsy too.
StoredTruthy(st) == st.t \notin {"absent", "empty"}

checkLoginStatusOnLoadConsumes(st, h) ==
    IF StoredTruthy(st) /\ st.t = "json" /\ ~updateHeaderUI(h, JSONparse(st)).threw
    THEN [isLoggedIn |-> TRUE, currentUser |-> JSONparse(st), stored |-> NoItem,
          header |-> updateHeaderUI(h, JSONparse(st)).header]
    ELSE [isLoggedIn |-> FALSE, currentUser |-> NullUser,
          stored |-> IF StoredTruthy(st) THEN NoItem ELSE st,
          header |-> LoggedOutHeader(h)]

\* checkLoginStatusOnLoad(): the session, the storage and the header it leaves.
checkLoginStatusOnLoad(st, h) ==
    LET discarded(hh) ==
            [isLoggedIn |-> FALSE, currentUser |-> NullUser, stored |-> NoItem,
             header |-> LoggedOutHeader(hh)]
    IN  IF StoredTruthy(st)
        THEN IF st.t # "json"
             THEN discarded(h)
             ELSE LET u == JSONparse(st)
                      r == updateHeaderUI(h, u)
                  IN  IF r.threw
                      THEN discarded(r.header)
                      ELSE [isLoggedIn |-> TRUE, currentUser |-> u, stored |-> st,
                            header |-> r.header]
        ELSE [isLoggedIn |-> FALSE, currentUser |-> NullUser, stored |-> st,
              header |-> LoggedOutHeader(h)]

\* loginUser(user); writeOk is whether localStorage.setItem succeeded (a failure
\* is caught and logged at lines 397-399).  threw: updateHeaderUI threw.
loginUser(user, st, h, writeOk) ==
    LET r == updateHeaderUI(h, user)
    IN  [threw |-> r.threw, isLoggedIn |-> TRUE, currentUser |-> user,
         stored |-> IF writeOk THEN JSONstringify(user) ELSE st,
         header |-> r.header]

-----------------------------------------------------------------------------
VARIABLES
    phase,          \* "unloaded", "scriptLoaded" (line 471 has run), "ready"
    isLoggedIn, currentUser, userHistory,
    stored,         \* localStorage['currentUser']
    inflight,       \* bag of the calls suspended on a fetch
    nops,           \* handler invocations that have issued a request so far
    otpActive,      \* #loginOtpContainer has class 'active'
    requestBtn,     \* #requestLoginOtp style.display
    loginView,      \* [login: display of #login, popup: success popup shown]
    header,         \* #loginBtn, #userProfile, #userName
    historyTable,   \* rows of #historyTableBody
    issued,         \* the requests the last step passed to fetch, in order
    alerted,        \* the notices the last step showed, in order
    ret,            \* what the handler returned in the last step, or NORET
    last,           \* the last step: [op, step, out, res, email, call]
    persisted,      \* the user last written by a loginUser that returned normally
    lastLoginUser,  \* the user of the most recent loginUser call, if it returned
    lastUploaded    \* the file identifier the upload endpoint last accepted

vars == <<phase, isLoggedIn, currentUser, userHistory, stored, inflight, nops,
          otpActive, requestBtn, loginView, header, historyTable, issued, alerted,
          ret, last, persisted, lastLoginUser, lastUploaded>>

NoCall == [op |-> "-", pc |-> "-", id |-> "-", file |-> "-",
           size |-> "-", rel |-> "-", uid0 |-> "-"]
Step(op, step, out, call) ==
    [op |-> op, step |-> step, out |-> out, res |-> "-", email |-> <<>>,
     body |-> <<>>, call |-> call]
StepWith(email, op, step, out, call) == [Step(op, step, out, call) EXCEPT !.email = email]
StepResult(res, op, step, out, call) == [Step(op, step, out, call) EXCEPT !.res = res]

Request(ep, userId, email, fileId, reportId, fileName, activity) ==
    [ep |-> ep, userId |-> userId, email |-> email, fileId |-> fileId,
     reportId |-> reportId, fileName |-> fileName, activity |-> activity]

MsgRow(text) ==
    [kind |-> "msg", date |-> text, activity |-> "", fileName |-> "", size |-> "",
     reportId |-> "", cls |-> FALSE]

InitWith(storedValues) ==
    /\ phase = "unloaded"
    /\ isLoggedIn = FALSE
    /\ currentUser = NullUser
    /\ userHistory = <<>>
    /\ stored \in storedValues
    /\ inflight = EmptyBag
    /\ nops = 0
    /\ otpActive = FALSE
    /\ requestBtn = "default"
    /\ loginView = [login |-> "default", popup |-> FALSE]
    /\ header = DefaultHeader
    /\ historyTable = <<>>
    /\ issued = <<>>
    /\ alerted = <<>>
    /\ ret = NORET
    /\ last = Step("init", "-", "-", NoCall)
    /\ persisted = NullUser
    /\ lastLoginUser = NullUser
    /\ lastUploaded = "-"

Init == InitWith(InitialStored)

\* A step that issues no request, shows no notice and returns nothing.
Quiet == issued' = <<>> /\ alerted' = <<>> /\ ret' = NORET

\* Lines 470-471: the script runs and calls checkLoginStatusOnLoad().
ScriptLoad ==
    /\ phase = "unloaded"
    /\ LET r == checkLoginStatusOnLoad(stored, header)
       IN  /\ isLoggedIn' = r.isLoggedIn
           /\ currentUser' = r.currentUser
           /\ stored' = r.stored
           /\ header' = r.header
           /\ persisted' = IF r.stored = stored THEN persisted ELSE NullUser
    /\ phase' = "scriptLoaded"
    /\ last' = Step("checkLoginStatusOnLoad", "scriptLoad", "-", NoCall)
    /\ Quiet
    /\ UNCHANGED <<userHistory, inflight, nops, otpActive, requestBtn, loginView,
                   historyTable, lastLoginUser, lastUploaded>>

\* Lines 474-492: the DOMContentLoaded listener calls checkLoginStatusOnLoad()
\* again and attaches the two login buttons' click listeners.
DOMContentLoaded ==
    /\ phase = "scriptLoaded"
    /\ LET r == checkLoginStatusOnLoad(stored, header)
       IN  /\ isLoggedIn' = r.isLoggedIn
           /\ currentUser' = r.currentUser
           /\ stored' = r.stored
           /\ header' = r.header
           /\ persisted' = IF r.stored = stored THEN persisted ELSE NullUser
    /\ phase' = "ready"
    /\ last' = Step("checkLoginStatusOnLoad", "DOMContentLoaded", "-", NoCall)
    /\ Quiet
    /\ UNCHANGED <<userHistory, inflight, nops, otpActive, requestBtn, loginView,
                   historyTable, lastLoginUser, lastUploaded>>

\* The page is reloaded: lines 5-7 run again, the document is rebuilt, pending
\* calls are dropped; localStorage is kept.
PageReload ==
    /\ phase # "unloaded"
    /\ phase' = "unloaded"
    /\ isLoggedIn' = FALSE
    /\ currentUser' = NullUser
    /\ userHistory' = <<>>
    /\ inflight' = EmptyBag
    /\ otpActive' = FALSE
    /\ requestBtn' = "default"
    /\ loginView' = [login |-> "default", popup |-> FALSE]
    /\ header' = DefaultHeader
    /\ historyTable' = <<>>
    /\ last' = Step("reload", "-", "-", NoCall)
    /\ lastUploaded' = "-"
    /\ Quiet
    /\ UNCHANGED <<stored, nops, persisted, lastLoginUser>>

-----------------------------------------------------------------------------
(* Login / OTP flow (lines 289-384).                                        *)

CanStart == nops < MaxOps
Suspend(c) == inflight' = inflight (+) SetToBag({c}) /\ nops' = nops + 1
Resume(c) == inflight' = inflight (-) SetToBag({c})
Suspended(op, pc) == {c \in BagToSet(inflight) : c.op = op /\ c.pc = pc}

\* requestLoginOtp() up to its await: the guard at line 293, then the fetch.
requestLoginOtp(email) ==
    /\ phase = "ready"
    /\ LET c == [NoCall EXCEPT !.op = "requestLoginOtp", !.pc = "awaitLogin"]
       IN  IF ~ValidEmail(email)
           THEN /\ alerted' = <<"Please enter a valid @agastya.org email address">>
                /\ issued' = <<>>
                /\ ret' = UNDEF
                /\ last' = StepWith(email, "requestLoginOtp", "start", "invalid", NoCall)
                /\ UNCHANGED <<inflight, nops>>
           ELSE /\ CanStart
                /\ alerted' = <<>>
                /\ issued' = <<Request("/api/login", "-", email, "-", "-", "-", "-")>>
                /\ ret' = NORET
                /\ last' = StepWith(email, "requestLoginOtp", "start", "sent", c)
                /\ Suspend(c)
    /\ UNCHANGED <<phase, isLoggedIn, currentUser, userHistory, stored, otpActive,
                   requestBtn, loginView, header, historyTable, persisted,
                   lastLoginUser, lastUploaded>>

LoginAcceptedAnyStatus(out) == out \in {"ok", "http_error"}

\* Lines 311 and 317: res.ok, and res.json() resolved.
LoginAccepted(out) == out = "ok"

\* Lines 309-325: the answer of /api/login.  Only a success whose body parses
\* activates the OTP container and hides the request button.
requestLoginOtpResponse(c, out) ==
    /\ c \in Suspended("requestLoginOtp", "awaitLogin")
    /\ Resume(c)
    /\ IF LoginAccepted(out)
       THEN /\ otpActive' = TRUE
            /\ requestBtn' = "none"
            /\ alerted' = <<>>
       ELSE /\ alerted' = <<"Failed to send OTP. Please check the console for details.">>
            /\ UNCHANGED <<otpActive, requestBtn>>
    /\ issued' = <<>>
    /\ ret' = UNDEF
    /\ last' = Step("requestLoginOtp", "response", out, c)
    /\ UNCHANGED <<phase, isLoggedIn, currentUser, userHistory, stored, nops,
                   loginView, header, historyTable, persisted, lastLoginUser,
                   lastUploaded>>

\* verifyLoginOtp() up to its await (lines 328-345): no guard, one request.
verifyLoginOtp(email, gen) ==
    /\ phase = "ready"
    /\ CanStart
    /\ LET c == [NoCall EXCEPT !.op = "verifyLoginOtp", !.pc = "awaitVerify"]
       IN  /\ Suspend(c)
           /\ last' = StepWith(email, "verifyLoginOtp", "start", "sent", c)
    /\ issued' = <<Request("/api/verify-otp", gen, email, "-", "-", "-", "-")>>
    /\ alerted' = <<>>
    /\ ret' = NORET
    /\ UNCHANGED <<phase, isLoggedIn, currentUser, userHistory, stored, otpActive,
                   requestBtn, loginView, header, historyTable, persisted,
                   lastLoginUser, lastUploaded>>

\* The object literal of lines 356-361 built from the response body.
ProfileOf(data) ==
    Obj(data.f.email, data.f.name, data.f.userId,
        IF Falsy(data.f.memberSince) THEN TODAY ELSE data.f.memberSince)

VerifyRejectedOnThrowOnly(out, data) == out \in {"network_error", "ok_badjson"}

\* Lines 347-357: !res.ok, a rejected fetch or res.json(), or a null body.
VerifyRejected(out, data) == out # "ok" \/ data.k = "null"

\* Lines 347-383: the answer of /api/verify-otp.  data is the parsed body of a
\* success; reading data.email of a null body throws before loginUser is called,
\* and a throw out of loginUser is caught by the same catch.
verifyLoginOtpResponse(c, out, data, writeOk) ==
    /\ c \in Suspended("verifyLoginOtp", "awaitVerify")
    /\ Resume(c)
    /\ issued' = <<>>
    /\ ret' = UNDEF
    /\ IF VerifyRejected(out, data)
       THEN /\ alerted' = <<"Invalid OTP. Please try again.">>
            /\ last' = StepResult("rejected", "verifyLoginOtp", "response", out, c)
            /\ UNCHANGED <<isLoggedIn, currentUser, stored, header, loginView,
                           persisted, lastLoginUser>>
       ELSE LET user == ProfileOf(data)
                r == loginUser(user, stored, header, writeOk)
            IN  /\ isLoggedIn' = r.isLoggedIn
                /\ currentUser' = r.currentUser
                /\ stored' = r.stored
                /\ header' = r.header
                /\ lastLoginUser' = IF r.threw THEN NullUser ELSE user
                /\ persisted' = IF ~writeOk THEN persisted
                                ELSE IF r.threw THEN NullUser ELSE user
                /\ IF r.threw
                   THEN /\ alerted' = <<"Invalid OTP. Please try again.">>
                        /\ last' = StepResult("threw", "verifyLoginOtp", "response", out, c)
                        /\ UNCHANGED loginView
                   ELSE /\ alerted' = <<>>
                        /\ last' = StepResult(IF writeOk THEN "saved" ELSE "unsaved",
                                              "verifyLoginOtp", "response", out, c)
                        /\ loginView' = [login |-> "none", popup |-> TRUE]
    /\ UNCHANGED <<phase, userHistory, nops, otpActive, requestBtn, historyTable,
                   lastUploaded>>

\* Lines 369-373: the click listener of #closeLoginPopup.
closeLoginPopup ==
    /\ loginView.popup
    /\ loginView' = [loginView EXCEPT !.popup = FALSE]
    /\ last' = Step("closeLoginPopup", "-", "-", NoCall)
    /\ Quiet
    /\ UNCHANGED <<phase, isLoggedIn, currentUser, userHistory, stored, inflight,
                   nops, otpActive, requestBtn, header, historyTable, persisted,
                   lastLoginUser, lastUploaded>>

-----------------------------------------------------------------------------
(* Upload / report client (lines 113-282).  History entries leave out the   *)
(* date: new Date() is not modelled.                                        *)

Entry(activity, fileName, fileSize, fileId, reportId) ==
    [activity |-> activity, fileName |-> fileName, fileSize |-> fileSize,
     fileId |-> fileId, reportId |-> reportId]

addHistoryEntryReplaces(h, entry) == <<entry>>

\* addHistoryEntry(entry), lines 28-32.
addHistoryEntry(h, entry) == Append(h, entry)

UploadOps == {"handleDailyAssessmentFile", "handleImpactAssessmentFile"}
UploadEndpoint(op) ==
    IF op = "handleDailyAssessmentFile" THEN "/api/daily-assessment/upload"
    ELSE "/api/impact-assessment/upload"

ReportOps == {"generateDailyAssessmentReport", "generateImpactAssessmentReport"}
ReportEndpoint(op) ==
    IF op = "generateDailyAssessmentReport" THEN "/api/daily-assessment/report"
    ELSE "/api/impact-assessment/report"

Loaded == phase \in {"scriptLoaded", "ready"}

UploadAcceptedAnyStatus(out) == out # "network_error"

\* Lines 129 and 230: if (!res.ok) throw; a rejected fetch throws as well.
UploadAccepted(out) == out = "ok"

SessionMissingNever(loggedIn, user) == FALSE

\* Lines 178 and 252: !isLoggedIn || !currentUser.
SessionMissing(loggedIn, user) == ~loggedIn \/ user.k = "null"

\* handleDailyAssessmentFile(file) / handleImpactAssessmentFile(file) up to the
\* await: lines 114-128 and 215-229.
handleAssessmentFile(op, file, fileId) ==
    /\ Loaded
    /\ op \in UploadOps
    /\ LET c == [NoCall EXCEPT !.op = op, !.pc = "awaitUpload", !.id = fileId,
                               !.file = file.name, !.size = file.size,
                               !.uid0 = currentUser.f.userId]
       IN  IF currentUser.k = "null"
           THEN /\ alerted' = <<"User not logged in.">>
                /\ issued' = <<>>
                /\ ret' = NULLV
                /\ last' = Step(op, "start", "rejected", [c EXCEPT !.id = "-"])
                /\ UNCHANGED <<inflight, nops>>
           ELSE /\ CanStart
                /\ alerted' = <<>>
                /\ issued' = <<Request(UploadEndpoint(op), currentUser.f.userId, <<>>,
                                       fileId, "-", file.name, "-")>>
                /\ ret' = NORET
                /\ last' = Step(op, "start", "sent", c)
                /\ Suspend(c)
    /\ UNCHANGED <<phase, isLoggedIn, currentUser, userHistory, stored, otpActive,
                   requestBtn, loginView, header, historyTable, persisted,
                   lastLoginUser, lastUploaded>>

\* Lines 129-154: the answer of /api/daily-assessment/upload.  On success the
\* history record is posted with the userId currentUser has now; reading
\* currentUser.userId of a null currentUser throws into the catch.
handleDailyAssessmentFileUploaded(c, out) ==
    /\ c \in Suspended("handleDailyAssessmentFile", "awaitUpload")
    /\ IF ~UploadAccepted(out)
       THEN /\ Resume(c)
            /\ alerted' = <<"Upload failed">>
            /\ issued' = <<>>
            /\ ret' = NULLV
            /\ UNCHANGED lastUploaded
       ELSE IF currentUser.k = "null"
       THEN /\ Resume(c)
            /\ alerted' = <<"Daily Assessment file uploaded", "Upload failed">>
            /\ issued' = <<>>
            /\ ret' = NULLV
            /\ lastUploaded' = c.id
       ELSE /\ lastUploaded' = c.id
            /\ inflight' = (inflight (-) SetToBag({c}))
                               (+) SetToBag({[c EXCEPT !.pc = "awaitHistory"]})
            /\ alerted' = <<"Daily Assessment file uploaded">>
            /\ issued' = <<Request("/api/history/", currentUser.f.userId, <<>>, c.id,
                                   NULLV, c.file, "Daily Assessment File Upload")>>
            /\ ret' = NORET
    /\ last' = Step(c.op, "uploadResponse", out, c)
    /\ UNCHANGED <<phase, isLoggedIn, currentUser, userHistory, stored, nops,
                   otpActive, requestBtn, loginView, header, historyTable,
                   persisted, lastLoginUser>>

\* Lines 143-162: the answer of the history POST.  fetch resolves for any HTTP
\* status, and the status is not looked at; a rejected fetch lands in the catch.
handleDailyAssessmentFileLogged(c, out) ==
    /\ c \in Suspended("handleDailyAssessmentFile", "awaitHistory")
    /\ Resume(c)
    /\ issued' = <<>>
    /\ IF out = "network_error"
       THEN /\ alerted' = <<"Upload failed">>
            /\ ret' = NULLV
       ELSE /\ alerted' = <<>>
            /\ ret' = c.id
    /\ last' = Step(c.op, "historyResponse", out, c)
    /\ UNCHANGED <<phase, isLoggedIn, currentUser, userHistory, stored, nops,
                   otpActive, requestBtn, loginView, header, historyTable,
                   persisted, lastLoginUser, lastUploaded>>

\* Lines 230-248: the answer of /api/impact-assessment/upload.
handleImpactAssessmentFileUploaded(c, out) ==
    /\ c \in Suspended("handleImpactAssessmentFile", "awaitUpload")
    /\ Resume(c)
    /\ issued' = <<>>
    /\ IF ~UploadAccepted(out)
       THEN /\ alerted' = <<"Upload failed">>
            /\ ret' = NULLV
            /\ UNCHANGED <<userHistory, lastUploaded>>
       ELSE /\ alerted' = <<"Impact Assessment file uploaded">>
            /\ userHistory' = addHistoryEntry(userHistory,
                                  Entry("IA File Upload", c.file, c.size, c.id, "-"))
            /\ ret' = c.id
            /\ lastUploaded' = c.id
    /\ last' = Step(c.op, "uploadResponse", out, c)
    /\ UNCHANGED <<phase, isLoggedIn, currentUser, stored, nops, otpActive,
                   requestBtn, loginView, header, historyTable, persisted,
                   lastLoginUser>>

\* showLoginPopup(message) is called at lines 179 and 253 and defined nowhere
\* in main.js: it prompts the user to log in.
showLoginPopup(message) == <<message>>

LoginPrompt(op) ==
    IF op = "generateDailyAssessmentReport"
    THEN "Please login to generate Daily Assessment report."
    ELSE "Please login to generate Impact Assessment report."

\* generateDailyAssessmentReport(relatedFileId = '-') and
\* generateImpactAssessmentReport(relatedFileId = '-') up to the await:
\* lines 178-191 and 252-265.  The only guard is the session's.
generateAssessmentReport(op, rel, reportId) ==
    /\ Loaded
    /\ op \in ReportOps
    /\ LET c == [NoCall EXCEPT !.op = op, !.pc = "awaitReport", !.id = reportId,
                               !.rel = rel, !.uid0 = currentUser.f.userId]
       IN  IF SessionMissing(isLoggedIn, currentUser)
           THEN /\ alerted' = showLoginPopup(LoginPrompt(op))
                /\ issued' = <<>>
                /\ ret' = UNDEF
                /\ last' = Step(op, "start", "rejected", [c EXCEPT !.id = "-"])
                /\ UNCHANGED <<inflight, nops>>
           ELSE /\ CanStart
                /\ alerted' = <<>>
                /\ issued' = <<Request(ReportEndpoint(op), currentUser.f.userId, <<>>,
                                       "-", reportId, "-", "-")>>
                /\ ret' = NORET
                /\ last' = Step(op, "start", "sent", c)
                /\ Suspend(c)
    /\ UNCHANGED <<phase, isLoggedIn, currentUser, userHistory, stored, otpActive,
                   requestBtn, loginView, header, historyTable, persisted,
                   lastLoginUser, lastUploaded>>

ReportEntrySwapsIds(c) ==
    IF c.op = "generateDailyAssessmentReport"
    THEN Entry("DA Report", "Daily_Assessment_Report", "-", c.id, c.rel)
    ELSE Entry("IA Report", "Impact_Assessment_Report", "-", c.id, c.rel)

\* The entry pushed at lines 194-201 and 268-275.
ReportEntry(c) ==
    IF c.op = "generateDailyAssessmentReport"
    THEN Entry("DA Report", "Daily_Assessment_Report", "-", c.rel, c.id)
    ELSE Entry("IA Report", "Impact_Assessment_Report", "-", c.rel, c.id)

\* Lines 192-207 and 266-281: the answer of the report endpoint.
generateAssessmentReportResponse(c, out) ==
    /\ c.op \in ReportOps
    /\ c \in Suspended(c.op, "awaitReport")
    /\ Resume(c)
    /\ issued' = <<>>
    /\ ret' = UNDEF
    /\ IF out = "ok"
       THEN /\ userHistory' = addHistoryEntry(userHistory, ReportEntry(c))
            /\ alerted' = <<IF c.op = "generateDailyAssessmentReport"
                            THEN "Daily Assessment report generated. ID: " \o c.id
                            ELSE "Impact Assessment report generated. ID: " \o c.id>>
       ELSE /\ alerted' = <<"Failed to generate report. Please try again.">>
            /\ UNCHANGED userHistory
    /\ last' = Step(c.op, "response", out, c)
    /\ UNCHANGED <<phase, isLoggedIn, currentUser, stored, nops, otpActive,
                   requestBtn, loginView, header, historyTable, persisted,
                   lastLoginUser, lastUploaded>>

-----------------------------------------------------------------------------
(* History synchronizer (lines 20-107 and 448-468).                         *)

Item(created_at, activity_type, file_name, report_id) ==
    [created_at |-> created_at, activity_type |-> activity_type,
     file_name |-> file_name, report_id |-> report_id]

ItemUpload == Item("2024-01-01T10:00:00", "Daily Assessment File Upload", "a.xlsx", NULLV)
ItemReport == Item("2024-01-02T11:30:00", "DA Report", NULLV, "AIF20260001")
ItemBadDate == Item("not a date", "IA Report", NULLV, "AIF20260002")

\* Lists the history GET may answer with.
HistoryBodies ==
    { <<>>, <<ItemUpload>>, <<ItemUpload, ItemReport>>, <<ItemReport, ItemUpload>>,
      <<ItemUpload, ItemBadDate>> }

\* formatDate(date), lines 20-25: Intl.DateTimeFormat's format throws a
\* RangeError for an invalid date.
ValidDate(d) == d \in {"2024-01-01T10:00:00", "2024-01-02T11:30:00"}
formatDate(d) ==
    IF d = "2024-01-01T10:00:00" THEN "Jan 1, 2024, 10:00 AM"
    ELSE "Jan 2, 2024, 11:30 AM"

OrDash(v) == IF Falsy(v) THEN "-" ELSE v

\* The row built at lines 74-106 for one item.
ItemRow(item) ==
    [kind |-> "item", date |-> formatDate(item.created_at),
     activity |-> item.activity_type, fileName |-> OrDash(item.file_name),
     size |-> "-", reportId |-> OrDash(item.report_id),
     cls |-> ~Falsy(item.report_id)]

renderHistoryTableNoEmptyCase(items) ==
    IF \E i \in 1..Len(items) : ~ValidDate(items[i].created_at)
    THEN [threw |-> TRUE, rows |-> <<>>]
    ELSE [threw |-> FALSE, rows |-> [i \in 1..Len(items) |-> ItemRow(items[i])]]

renderHistoryTableKeepsRows(items) ==
    IF Len(items) = 0
    THEN [threw |-> FALSE, rows |-> <<MsgRow("No history records found.")>>]
    ELSE IF \E i \in 1..Len(items) : ~ValidDate(items[i].created_at)
    THEN [threw |-> TRUE, rows |-> <<>>]
    ELSE [threw |-> FALSE,
          rows |-> historyTable \o [i \in 1..Len(items) |-> ItemRow(items[i])]]

\* renderHistoryTable(historyItems), lines 65-107: the rows it leaves, and
\* whether formatDate threw on the way.
renderHistoryTable(items) ==
    IF Len(items) = 0
    THEN [threw |-> FALSE, rows |-> <<MsgRow("No history records found.")>>]
    ELSE IF \E i \in 1..Len(items) : ~ValidDate(items[i].created_at)
    THEN LET bad == CHOOSE i \in 1..Len(items) :
                        /\ ~ValidDate(items[i].created_at)
                        /\ \A j \in 1..(i - 1) : ValidDate(items[j].created_at)
         IN  [threw |-> TRUE, rows |-> [i \in 1..(bad - 1) |-> ItemRow(items[i])]]
    ELSE [threw |-> FALSE, rows |-> [i \in 1..Len(items) |-> ItemRow(items[i])]]

\* fetchUserHistory() up to its await, lines 36-43.
fetchUserHistory ==
    /\ Loaded
    /\ LET c == [NoCall EXCEPT !.op = "fetchUserHistory", !.pc = "awaitHistory",
                               !.uid0 = currentUser.f.userId]
       IN  IF currentUser.k = "null" \/ Falsy(currentUser.f.userId)
           THEN /\ issued' = <<>>
                /\ ret' = UNDEF
                /\ last' = Step("fetchUserHistory", "start", "rejected", c)
                /\ UNCHANGED <<inflight, nops>>
           ELSE /\ CanStart
                /\ issued' = <<Request("/api/history/{userId}", currentUser.f.userId,
                                       <<>>, "-", "-", "-", "-")>>
                /\ ret' = NORET
                /\ last' = Step("fetchUserHistory", "start", "sent", c)
                /\ Suspend(c)
    /\ alerted' = <<>>
    /\ UNCHANGED <<phase, isLoggedIn, currentUser, userHistory, stored, otpActive,
                   requestBtn, loginView, header, historyTable, persisted,
                   lastLoginUser, lastUploaded>>

fetchUserHistoryResponseLogsOut(c, out, body) ==
    /\ c \in Suspended("fetchUserHistory", "awaitHistory")
    /\ Resume(c)
    /\ issued' = <<>>
    /\ alerted' = <<>>
    /\ ret' = UNDEF
    /\ historyTable' =
         IF out = "http_error" THEN <<MsgRow("Error loading history: 500")>>
         ELSE IF out # "ok" THEN <<MsgRow("Failed to load history.")>>
         ELSE LET r == renderHistoryTable(body)
              IN  IF r.threw THEN <<MsgRow("Failed to load history.")>> ELSE r.rows
    /\ last' = [Step("fetchUserHistory", "response", out, c) EXCEPT !.body = body]
    /\ IF out = "http_error"
       THEN isLoggedIn' = FALSE /\ currentUser' = NullUser /\ stored' = NoItem
       ELSE UNCHANGED <<isLoggedIn, currentUser, stored>>
    /\ UNCHANGED <<phase, userHistory, nops, otpActive, requestBtn, loginView,
                   header, persisted, lastLoginUser, lastUploaded>>

\* Lines 45-61: the answer of the history GET.
fetchUserHistoryResponse(c, out, body) ==
    /\ c \in Suspended("fetchUserHistory", "awaitHistory")
    /\ Resume(c)
    /\ issued' = <<>>
    /\ alerted' = <<>>
    /\ ret' = UNDEF
    /\ historyTable' =
         IF out = "http_error" THEN <<MsgRow("Error loading history: 500")>>
         ELSE IF out # "ok" THEN <<MsgRow("Failed to load history.")>>
         ELSE LET r == renderHistoryTable(body)
              IN  IF r.threw THEN <<MsgRow("Failed to load history.")>> ELSE r.rows
    /\ last' = [Step("fetchUserHistory", "response", out, c) EXCEPT !.body = body]
    /\ UNCHANGED <<phase, isLoggedIn, currentUser, userHistory, stored, nops,
                   otpActive, requestBtn, loginView, header, persisted,
                   lastLoginUser, lastUploaded>>

\* showHistoryPage(), lines 448-468: the guard, then fetchUserHistory().
showHistoryPage ==
    /\ Loaded
    /\ LET c == [NoCall EXCEPT !.op = "fetchUserHistory", !.pc = "awaitHistory",
                               !.uid0 = currentUser.f.userId]
       IN  IF currentUser.k = "null" \/ Falsy(currentUser.f.userId)
           THEN /\ alerted' = <<"Please log in to view history.">>
                /\ historyTable' = <<MsgRow("Please log in to view history.")>>
                /\ issued' = <<>>
                /\ last' = Step("showHistoryPage", "start", "rejected", c)
                /\ UNCHANGED <<inflight, nops>>
           ELSE /\ CanStart
                /\ alerted' = <<>>
                /\ issued' = <<Request("/api/history/{userId}", currentUser.f.userId,
                                       <<>>, "-", "-", "-", "-")>>
                /\ last' = Step("showHistoryPage", "start", "sent", c)
                /\ Suspend(c)
                /\ UNCHANGED historyTable
    /\ ret' = UNDEF
    /\ UNCHANGED <<phase, isLoggedIn, currentUser, userHistory, stored, otpActive,
                   requestBtn, loginView, header, persisted, lastLoginUser,
                   lastUploaded>>

-----------------------------------------------------------------------------
NextWith(bodies) ==
    \/ ScriptLoad
    \/ DOMContentLoaded
    \/ PageReload
    \/ \E email \in Emails : requestLoginOtp(email)
    \/ \E c \in BagToSet(inflight), out \in BodyOutcomes : requestLoginOtpResponse(c, out)
    \/ \E email \in Emails, gen \in GenUserIds : verifyLoginOtp(email, gen)
    \/ \E c \in BagToSet(inflight), out \in BodyOutcomes :
          \E data \in IF out = "ok" THEN bodies ELSE {NullUser},
             writeOk \in IF out = "ok" THEN BOOLEAN ELSE {TRUE} :
             verifyLoginOtpResponse(c, out, data, writeOk)
    \/ closeLoginPopup
    \/ \E op \in UploadOps, file \in Files, fileId \in Ids :
          handleAssessmentFile(op, file, fileId)
    \/ \E c \in BagToSet(inflight), out \in Outcomes :
          handleDailyAssessmentFileUploaded(c, out)
    \/ \E c \in BagToSet(inflight), out \in Outcomes :
          handleDailyAssessmentFileLogged(c, out)
    \/ \E c \in BagToSet(inflight), out \in Outcomes :
          handleImpactAssessmentFileUploaded(c, out)
    \/ \E op \in ReportOps, rel \in {"-"} \cup Ids, reportId \in Ids :
          generateAssessmentReport(op, rel, reportId)
    \/ \E c \in BagToSet(inflight), out \in Outcomes :
          generateAssessmentReportResponse(c, out)
    \/ fetchUserHistory
    \/ \E c \in BagToSet(inflight), out \in BodyOutcomes :
          \E body \in IF out = "ok" THEN HistoryBodies ELSE {<<>>} :
             fetchUserHistoryResponse(c, out, body)
    \/ showHistoryPage

Next == NextWith(VerifyBodies)

Spec == Init /\ [][Next]_vars

\* The same program when the storage and the verify-otp endpoint only ever hold
\* complete user records (or, for the storage, nothing or an unparseable text).
InitWellFormed == InitWith({NoItem, EmptyText, Garbage, JSONstringify(UserA)})
NextWellFormed == NextWith({UserA, UserB})
SpecWellFormed == InitWellFormed /\ [][NextWellFormed]_vars

-----------------------------------------------------------------------------
(* Properties.                                                              *)

FieldSet(v) == v \notin {UNDEF, NULLV}
FullyPopulated(u) == u.k = "obj" /\ \A x \in DOMAIN u.f : FieldSet(u.f[x])

\* C1: in every reachable state the session is fully absent (isLoggedIn false,
\* currentUser null) or fully populated (isLoggedIn true and email, name, userId
\* and memberSince of currentUser all set).
C1_NoPartialSession ==
    \/ ~isLoggedIn /\ currentUser = NullUser
    \/ isLoggedIn /\ FullyPopulated(currentUser)

\* C2: a stored value that is present but not parseable makes
\* checkLoginStatusOnLoad end unauthenticated with the stored record removed.
C2_UnparseableDiscarded ==
    [][(last'.op = "checkLoginStatusOnLoad" /\ stored.t \in {"empty", "invalid"})
        => (~isLoggedIn' /\ currentUser' = NullUser /\ stored' = NoItem)]_vars

\* C3: requestLoginOtp with an email that is empty or does not end in
\* '@agastya.org' leaves the OTP container and the request button as they were
\* (an Idle flow stays Idle), shows the validation error, issues no request and
\* leaves no call pending.
C3_InvalidEmailRejected ==
    [][(last'.op = "requestLoginOtp" /\ last'.step = "start"
            /\ ~(last'.email # <<>> /\ endsWith(last'.email, Suffix)))
        => /\ otpActive' = otpActive
           /\ requestBtn' = requestBtn
           /\ issued' = <<>>
           /\ inflight' = inflight
           /\ alerted' = <<"Please enter a valid @agastya.org email address">>]_vars

C3_Witness ==
    /\ last.op = "requestLoginOtp" /\ last.step = "start"
    /\ last.email = <<"t">> \o Suffix \o <<" ">>
    /\ ~otpActive /\ issued = <<>> /\ alerted # <<>>

\* C4 as stated: once requestLoginOtp has run for a valid email, the flow is in
\* OtpRequested (the OTP container is active).
C4_ValidEmailAlwaysOtpRequested ==
    (last.op = "requestLoginOtp" /\ last.step = "response") => otpActive

\* C4 amended: for a valid email requestLoginOtp sends exactly one request, to
\* /api/login with that email; the flow moves to OtpRequested when the answer is
\* a success whose body parses, and otherwise stays as it was with a notice.
C4_OtpRequestedOnSuccess ==
    [][/\ (last'.op = "requestLoginOtp" /\ last'.step = "start"
              /\ last'.email # <<>> /\ endsWith(last'.email, Suffix))
          => /\ issued' = <<Request("/api/login", "-", last'.email, "-", "-", "-", "-")>>
             /\ alerted' = <<>>
             /\ otpActive' = otpActive
       /\ (last'.op = "requestLoginOtp" /\ last'.step = "response")
          => IF last'.out = "ok"
             THEN otpActive' /\ requestBtn' = "none" /\ alerted' = <<>>
             ELSE /\ otpActive' = otpActive
                  /\ requestBtn' = requestBtn
                  /\ Len(alerted') = 1]_vars

C4_Witness ==
    /\ last.op = "requestLoginOtp" /\ last.step = "response" /\ last.out = "ok"
    /\ otpActive /\ ~isLoggedIn

\* C5: when the upload endpoint fails (non-success status or network error) the
\* upload call returns null, appends nothing to userHistory, sends no request
\* (so no record to the history log) and is over.
C5_FailedUploadRecordsNothing ==
    [][(last'.op \in UploadOps /\ last'.step = "uploadResponse"
            /\ last'.out \in {"http_error", "network_error"})
        => /\ ret' = NULLV
           /\ userHistory' = userHistory
           /\ issued' = <<>>
           /\ inflight' = inflight (-) SetToBag({last'.call})
           /\ alerted' = <<"Upload failed">>]_vars

C5_Witness ==
    /\ last.op = "handleDailyAssessmentFile" /\ last.step = "uploadResponse"
    /\ last.out = "http_error" /\ ret = NULLV /\ isLoggedIn

\* C6 as stated: a report-generation call made when no file has been uploaded
\* earlier in the session issues no request.
C6_NoUploadNoReportRequest ==
    (last.op \in ReportOps /\ last.step = "start" /\ lastUploaded = "-")
        => issued = <<>>

\* C6 amended: a report-generation call is rejected before any request exactly
\* when no session is established (the user is prompted to log in); with a
\* session it sends one request to its report endpoint, whether or not a file
\* was uploaded before.
C6_ReportGatedBySessionOnly ==
    [][(last'.op \in ReportOps /\ last'.step = "start")
        => IF ~isLoggedIn \/ currentUser = NullUser
           THEN /\ issued' = <<>>
                /\ inflight' = inflight
                /\ alerted' = <<LoginPrompt(last'.op)>>
           ELSE /\ Len(issued') = 1
                /\ issued'[1].ep = ReportEndpoint(last'.op)
                /\ issued'[1].userId = currentUser.f.userId
                /\ alerted' = <<>>]_vars

C6_Witness ==
    /\ last.op \in ReportOps /\ last.step = "start" /\ last.out = "rejected"
    /\ ~isLoggedIn /\ issued = <<>>

\* C7: whenever the upload endpoint answered with success, the upload call
\* returns the file identifier (never null) once it ends, and the record of the
\* upload is in userHistory or was sent to the history log, whatever the
\* history request's own outcome.
C7_AcceptedUploadReturnsId ==
    (/\ last.op \in UploadOps
     /\ \/ last.step = "uploadResponse" /\ last.out = "ok"
        \/ last.step = "historyResponse"
     /\ ret # NORET)
        => /\ ret = last.call.id
           /\ last.op = "handleImpactAssessmentFile"
                => /\ userHistory # <<>>
                   /\ userHistory[Len(userHistory)].fileId = ret

\* C8: when OTP verification is rejected (non-success status or network error)
\* the session (isLoggedIn, currentUser, the stored record) and the login flow
\* (OTP container, request button, login view) are unchanged and the user gets
\* the 'Invalid OTP' notice; and verifyLoginOtp can be started again in every
\* state of a ready page, whatever happened before.
C8_RejectedOtpChangesNothing ==
    /\ [][(last'.op = "verifyLoginOtp" /\ last'.step = "response"
              /\ last'.out \in {"http_error", "network_error"})
          => /\ UNCHANGED <<isLoggedIn, currentUser, stored, otpActive, requestBtn,
                            loginView, header>>
             /\ alerted' = <<"Invalid OTP. Please try again.">>
             /\ issued' = <<>>]_vars
    /\ []((phase = "ready" /\ nops < MaxOps)
            => ENABLED (\E email \in Emails, gen \in GenUserIds :
                            verifyLoginOtp(email, gen)))

C8_Witness ==
    /\ last.op = "verifyLoginOtp" /\ last.step = "response"
    /\ last.out = "http_error"
    /\ otpActive /\ ~isLoggedIn /\ alerted = <<"Invalid OTP. Please try again.">>

\* C9 as stated: after loginUser(user) has run (here: for a complete user
\* record), the checkLoginStatusOnLoad of the next page load restores a session
\* whose currentUser is user, without a request.
C9_LoginThenReloadRestores ==
    [][(last'.step = "scriptLoad" /\ FullyPopulated(lastLoginUser))
        => (isLoggedIn' /\ currentUser' = lastLoginUser /\ issued' = <<>>)]_vars

\* C9 amended: after loginUser(user) has returned and its localStorage write
\* succeeded, the checkLoginStatusOnLoad of the next page load restores a
\* session whose currentUser is user, without a request and leaving the stored
\* record as it is.
C9_SavedLoginThenReloadRestores ==
    [][(last'.step = "scriptLoad" /\ persisted # NullUser)
        => /\ isLoggedIn'
           /\ currentUser' = persisted
           /\ issued' = <<>>
           /\ stored' = stored]_vars

C9_Witness ==
    /\ last.step = "scriptLoad"
    /\ persisted # NullUser /\ persisted = lastLoginUser
    /\ isLoggedIn /\ currentUser = persisted

DataEndpoints ==
    { "/api/daily-assessment/upload", "/api/impact-assessment/upload",
      "/api/daily-assessment/report", "/api/impact-assessment/report",
      "/api/history/", "/api/history/{userId}" }

\* C10: a request to an upload, report or history endpoint is issued only with a
\* session established, an operation started without one issues none, and every
\* such request carries the userId of the session that was current when its
\* operation started.
C10_RequestsCarryStartingSession ==
    /\ \A i \in 1..Len(issued) :
          issued[i].ep \in DataEndpoints
            => /\ isLoggedIn /\ currentUser # NullUser
               /\ issued[i].userId = last.call.uid0
    /\ (last.step = "start" /\ last.out = "rejected") => issued = <<>>

\* C11: when the history endpoint answers with an empty list, the table holds
\* exactly one row, the message 'No history records found.'.
C11_EmptyHistoryOneRow ==
    [][(last'.op = "fetchUserHistory" /\ last'.step = "response"
            /\ last'.out = "ok" /\ last'.body = <<>>)
        => historyTable' = <<MsgRow("No history records found.")>>]_vars

C11_Witness ==
    /\ last.op = "fetchUserHistory" /\ last.step = "response"
    /\ last.out = "ok" /\ last.body = <<>>
    /\ Len(historyTable) = 1
    /\ historyTable[1].date = "No history records found."

\* C12: from an unauthenticated page the login flow reaches Authenticated only
\* through OtpRequested: verifyLoginOtp establishes a session only if a
\* requestLoginOtp for a valid-domain email has succeeded earlier in the same
\* page lifetime (otpActive is set by that success alone and cleared by nothing
\* but a reload).
C12_SessionOnlyAfterOtpRequested ==
    [][(last'.op = "verifyLoginOtp" /\ last'.step = "response"
            /\ ~isLoggedIn /\ isLoggedIn')
        => otpActive]_vars

\* C13: a session, once established by OTP verification or by the restore at
\* script load, stays established through every later step of the same page
\* lifetime, the second checkLoginStatusOnLoad at DOMContentLoaded included; only
\* a reload, which restarts the script, takes the page back to unauthenticated.
C13_SessionStaysEstablished ==
    [][(isLoggedIn /\ last'.op # "reload")
        => (isLoggedIn' /\ currentUser' # NullUser)]_vars

C13_Witness ==
    /\ last.op = "checkLoginStatusOnLoad" /\ last.step = "DOMContentLoaded"
    /\ isLoggedIn /\ currentUser # NullUser
    /\ stored = JSONstringify(currentUser)

SessionFreeOps == UploadOps \cup ReportOps \cup {"fetchUserHistory", "showHistoryPage"}

\* C14: every step of an upload, a report, a history fetch or the history page,
\* on its success, failure and rejected-guard paths alike, leaves isLoggedIn,
\* currentUser and the stored session record as they were.
C14_DataOpsKeepSession ==
    [][last'.op \in SessionFreeOps
        => UNCHANGED <<isLoggedIn, currentUser, stored>>]_vars

C14_Witness ==
    /\ last.op = "fetchUserHistory" /\ last.step = "response"
    /\ last.out = "http_error"
    /\ isLoggedIn /\ stored = JSONstringify(currentUser)

IsPrefix(s, t) == Len(s) <= Len(t) /\ SubSeq(t, 1, Len(s)) = s

\* C15: a report call appends exactly one record to userHistory when the report
\* endpoint answers with success and leaves the list unchanged when the request
\* fails or the guard rejects the call; no step of a page lifetime removes or
\* alters a record already in the list (the list restarts empty on a reload).
C15_ReportAppendsOnSuccessOnly ==
    [][/\ (last'.op \in ReportOps /\ last'.step = "response")
            => IF last'.out = "ok"
               THEN /\ Len(userHistory') = Len(userHistory) + 1
                    /\ IsPrefix(userHistory, userHistory')
                    /\ userHistory'[Len(userHistory')].reportId = last'.call.id
               ELSE userHistory' = userHistory
       /\ (last'.op \in ReportOps /\ last'.step = "start")
            => userHistory' = userHistory
       /\ last'.op # "reload" => IsPrefix(userHistory, userHistory')]_vars

C15_Witness ==
    /\ last.op \in ReportOps /\ last.step = "response" /\ last.out = "ok"
    /\ Len(userHistory) = 2
    /\ userHistory[1].activity = "IA File Upload"
    /\ userHistory[2].reportId = last.call.id

ReportActivities == {"DA Report", "IA Report"}

\* C16: every activity record the client creates has the shape of its kind.  An
\* upload record, pushed to userHistory or posted to the history endpoint,
\* carries the generated file identifier and no report identifier ('-' in the
\* list, null in the POST); a report record carries the generated report
\* identifier and, as file reference, the relatedFileId the report was asked
\* for: a file identifier or the placeholder '-'.
C16_RecordShapes ==
    [][/\ Len(userHistory') > Len(userHistory)
            => LET e == userHistory'[Len(userHistory')]
               IN  IF e.activity \in ReportActivities
                   THEN /\ last'.op \in ReportOps
                        /\ e.reportId = last'.call.id /\ e.reportId \in Ids
                        /\ e.fileId = last'.call.rel /\ e.fileId \in Ids \cup {"-"}
                   ELSE /\ last'.op \in UploadOps
                        /\ e.fileId = last'.call.id /\ e.fileId \in Ids
                        /\ e.reportId = "-"
       /\ \A i \in 1..Len(issued') :
            issued'[i].ep = "/api/history/"
              => /\ last'.op \in UploadOps
                 /\ issued'[i].fileId = last'.call.id /\ issued'[i].fileId \in Ids
                 /\ issued'[i].reportId = NULLV]_vars

C16_Witness ==
    /\ last.op \in ReportOps /\ last.step = "response" /\ last.out = "ok"
    /\ last.call.rel \in Ids /\ lastUploaded = last.call.rel
    /\ userHistory[Len(userHistory)].activity \in ReportActivities
    /\ userHistory[Len(userHistory)].fileId = lastUploaded

\* The step that just ended handled a failed request: a non-2xx status or a
\* rejected fetch.
FailedResponse ==
    /\ last.step \in {"response", "uploadResponse", "historyResponse"}
    /\ last.out \in {"http_error", "network_error"}

\* The user-facing notices of the step that just ended: its alerts, and for a
\* history fetch the single message row it left in the table.
Notices ==
    Len(alerted)
      + (IF last.op = "fetchUserHistory" /\ Len(historyTable) = 1
                                        /\ historyTable[1].kind = "msg"
         THEN 1 ELSE 0)

\* The history POST that follows an accepted Daily upload got a non-2xx answer.
HistoryPostRefused ==
    /\ last.op = "handleDailyAssessmentFile" /\ last.step = "historyResponse"
    /\ last.out = "http_error"

\* C17: whenever a request made by login, verification, an upload, a report or
\* a history fetch fails (non-2xx status or rejected fetch), a session being
\* complete or absent, the handler produces exactly one user-facing notice,
\* issues no further request and returns.
C17_FailureGivesOneNotice ==
    (FailedResponse /\ (currentUser = NullUser \/ FullyPopulated(currentUser)))
        => (Notices = 1 /\ issued = <<>> /\ ret # NORET)

\* C17 amended: the same for every failed request but one; a non-2xx answer to
\* the history POST that follows an accepted Daily upload is not looked at: no
\* notice, no further request, and the upload returns its file identifier.
C17_FailureGivesOneNoticeButHistoryPost ==
    FailedResponse
        => /\ issued = <<>> /\ ret # NORET
           /\ IF HistoryPostRefused
              THEN Notices = 0 /\ ret = last.call.id
              ELSE Notices = 1

C17_Witness ==
    /\ last.op = "fetchUserHistory" /\ last.step = "response"
    /\ last.out = "network_error"
    /\ alerted = <<>> /\ issued = <<>> /\ ret = UNDEF
    /\ historyTable = <<MsgRow("Failed to load history.")>>

HistoryErrorRows ==
    { <<MsgRow("Error loading history: 500")>>, <<MsgRow("Failed to load history.")>> }

\* C18: under any interleaving of history fetches, the step that completes one
\* leaves a table made from that response alone, whatever the table held and
\* whichever other fetches are pending: one row per returned record in the
\* returned order (the single 'no records' row for an empty list), or exactly
\* one error row when the request or the rendering of its records failed.
C18_TableFromOneResponse ==
    [][(last'.op = "fetchUserHistory" /\ last'.step = "response")
        => LET body == last'.body
           IN  IF last'.out = "ok"
                    /\ \A i \in 1..Len(body) : ValidDate(body[i].created_at)
               THEN IF body = <<>>
                    THEN historyTable' = <<MsgRow("No history records found.")>>
                    ELSE /\ Len(historyTable') = Len(body)
                         /\ \A i \in 1..Len(body) :
                              /\ historyTable'[i].kind = "item"
                              /\ historyTable'[i].activity = body[i].activity_type
                              /\ historyTable'[i].fileName = OrDash(body[i].file_name)
                              /\ historyTable'[i].reportId = OrDash(body[i].report_id)
               ELSE historyTable' \in HistoryErrorRows]_vars

C18_Witness ==
    /\ last.op = "fetchUserHistory" /\ last.step = "response" /\ last.out = "ok"
    /\ Len(last.body) = 2 /\ Len(historyTable) = 2
    /\ historyTable[1].activity = last.body[1].activity_type
    /\ \E c \in BagToSet(inflight) : c.op = "fetchUserHistory"

\* C19: checkLoginStatusOnLoad is idempotent.  For every value the storage can
\* hold (absent, empty, unparseable, a parseable record of any shape), a second
\* run leaves isLoggedIn, currentUser and the stored record exactly as the first
\* run left them; in particular the run at DOMContentLoaded changes nothing of
\* what the run at script load established.
C19_CheckLoginStatusIdempotent ==
    /\ [](LET once == checkLoginStatusOnLoad(stored, header)
              twice == checkLoginStatusOnLoad(once.stored, once.header)
          IN  /\ twice.isLoggedIn = once.isLoggedIn
              /\ twice.currentUser = once.currentUser
              /\ twice.stored = once.stored)
    /\ [][last'.step = "DOMContentLoaded"
            => UNCHANGED <<isLoggedIn, currentUser, stored>>]_vars

C19_Witness ==
    /\ last.op = "checkLoginStatusOnLoad" /\ last.step = "DOMContentLoaded"
    /\ isLoggedIn /\ FullyPopulated(currentUser)
    /\ header.userName = currentUser.f.name
    /\ JSONparse(stored) = currentUser

====
